---- MODULE Spec2Model ----
(***************************************************************************)
(* Model of the two desktop utilities of the repository:                   *)
(*   - "Youtube Video Transcriber_2.py": URL -> video id -> captions or    *)
(*     (download audio -> Whisper) -> optional translation -> .srt file    *)
(*   - "Voice_to_text.py": local audio file -> Whisper -> text             *)
(* Both are single-threaded Qt programs.  Handlers run to completion       *)
(* except where they call QApplication.processEvents(), which re-enters    *)
(* event dispatch (user input, due timers) in the middle of the handler.   *)
(* Strings that the code inspects character by character (the URL) are     *)
(* sequences of one-character strings.                                     *)
(***************************************************************************)
EXTENDS Integers, Sequences, FiniteSets, TLC

\* Python None, for optional strings and paths (which are sequences)
None == <<"None">>

(***************************************************************************)
(* Bounds of the model.                                                    *)
(***************************************************************************)
\* longest caption / Whisper segment list returned by a provider
MaxSegs == 2
\* number of requests carried to their end in one run of the program
MaxRequests == 1
\* deepest nesting of process_transcription frames explored
MaxDepth == 2

(***************************************************************************)
(* get_video_id                                                            *)
(***************************************************************************)
\* the character class [0-9A-Za-z_-]
IdChars ==
    { "0", "1", "2", "3", "4", "5", "6", "7", "8", "9", "A", "B", "C", "D", "E", "F",
      "G", "H", "I", "J", "K", "L", "M", "N", "O", "P", "Q", "R", "S", "T", "U", "V",
      "W", "X", "Y", "Z", "a", "b", "c", "d", "e", "f", "g", "h", "i", "j", "k", "l",
      "m", "n", "o", "p", "q", "r", "s", "t", "u", "v", "w", "x", "y", "z", "_", "-" }

\* {11} in every pattern
IdLen == 11

\* string whitespace removed by str.strip()
Whitespace == {" "}

L_v == <<"v", "=">>
L_slash == <<"/">>
L_youtu_be == <<"y", "o", "u", "t", "u", ".", "b", "e", "/">>
L_embed == <<"e", "m", "b", "e", "d", "/">>
L_shorts == <<"s", "h", "o", "r", "t", "s", "/">>

\* the ordered pattern list: each pattern is the ordered alternatives of its
\* non-capturing prefix group; the capture is the IdLen characters after it
patterns_specific_first ==
    << <<L_youtu_be>>, <<L_embed>>, <<L_shorts>>, <<L_v, L_slash>> >>

patterns ==
    << <<L_v, L_slash>>, <<L_youtu_be>>, <<L_embed>>, <<L_shorts>> >>

\* the literal lit occurs in s at position pos
LitAt(s, pos, lit) ==
    /\ pos + Len(lit) - 1 <= Len(s)
    /\ \A k \in 1..Len(lit) : s[pos + k - 1] = lit[k]

\* IdLen characters of the class start at position pos
IdAt(s, pos) ==
    /\ pos + IdLen - 1 <= Len(s)
    /\ \A k \in 0..(IdLen - 1) : s[pos + k] \in IdChars

\* pattern p matches s starting exactly at position pos
MatchAt(s, pos, p) ==
    \E a \in 1..Len(p) : LitAt(s, pos, p[a]) /\ IdAt(s, pos + Len(p[a]))

\* group(1) of the match of p at pos: the first alternative that matches
GroupAt(s, pos, p) ==
    LET a == CHOOSE x \in 1..Len(p) :
                 /\ LitAt(s, pos, p[x]) /\ IdAt(s, pos + Len(p[x]))
                 /\ \A y \in 1..(x - 1) :
                        ~(LitAt(s, pos, p[y]) /\ IdAt(s, pos + Len(p[y])))
        from == pos + Len(p[a])
    IN  SubSeq(s, from, from + IdLen - 1)

\* re.search(p, s): the leftmost match, None when there is none
re_search(p, s) ==
    IF \E pos \in 1..Len(s) : MatchAt(s, pos, p)
    THEN LET pos == CHOOSE q \in 1..Len(s) :
                        /\ MatchAt(s, q, p)
                        /\ \A r \in 1..(q - 1) : ~MatchAt(s, r, p)
         IN  GroupAt(s, pos, p)
    ELSE None

get_video_id(url) ==
    IF \E n \in 1..Len(patterns) : re_search(patterns[n], url) # None
    THEN LET n == CHOOSE m \in 1..Len(patterns) :
                      /\ re_search(patterns[m], url) # None
                      /\ \A l \in 1..(m - 1) : re_search(patterns[l], url) = None
         IN  re_search(patterns[n], url)
    ELSE None

\* str.strip()
RECURSIVE lstrip(_)
lstrip(s) ==
    IF s # <<>> /\ Head(s) \in Whitespace THEN lstrip(Tail(s)) ELSE s

RECURSIVE rstrip(_)
rstrip(s) ==
    IF s # <<>> /\ s[Len(s)] \in Whitespace
    THEN rstrip(SubSeq(s, 1, Len(s) - 1)) ELSE s

strip(s) == rstrip(lstrip(s))

(***************************************************************************)
(* URLs the user can type: prefix, URL shape, identifier, tail.            *)
(***************************************************************************)
P_https == <<"h", "t", "t", "p", "s", ":", "/", "/">>
P_www == <<"h", "t", "t", "p", "s", ":", "/", "/", "w", "w", "w", ".", "y", "o", "u", "t", "u", "b", "e", ".", "c", "o", "m", "/">>
P_nocookie == <<"h", "t", "t", "p", "s", ":", "/", "/", "y", "o", "u", "t", "u", "b", "e", "-", "n", "o", "c", "o", "o", "k", "i", "e", ".", "c", "o", "m", "/">>
S_watch == <<"w", "a", "t", "c", "h", "?", "v", "=">>
S_youtu_be == L_youtu_be
S_embed == L_embed
S_shorts == L_shorts
ID_A == <<"d", "Q", "w", "4", "w", "9", "W", "g", "X", "c", "Q">>
ID_B == <<"a", "_", "b", "-", "c", "1", "D", "2", "e", "3", "F">>
T_none == <<>>
T_query == <<"?", "t", "=", "4">>

UrlPrefixes == {P_https, P_www, P_nocookie}
UrlShapes == {S_watch, S_youtu_be, S_embed, S_shorts}
VideoIds == {ID_A, ID_B}
UrlTails == {T_none, T_query}

MkUrl(p, s, id, t) == p \o s \o id \o t

U_garbage == <<"h", "e", "l", "l", "o">>

\* every URL of a supported shape, and strings that are no URL
AllUrls ==
    { MkUrl(p, s, id, t) : p \in UrlPrefixes, s \in UrlShapes,
                           id \in VideoIds, t \in UrlTails }
    \cup {U_garbage, <<>>, <<" ">>}

\* the URLs typed while a pipeline is followed through
UrlInputs ==
    { MkUrl(P_www, S_watch, ID_A, T_none),
      <<" ">> \o MkUrl(P_https, S_youtu_be, ID_B, T_query) \o <<" ">>,
      U_garbage }

(***************************************************************************)
(* Data handled by the YouTube pipeline.                                   *)
(***************************************************************************)
Languages == {"English", "Persian"}

\* length of the context window on each side (context_range)
context_range == 2

\* range(3) in whisper_transcribe
MaxAttempts == 3

\* entries of a caption track, as the caption provider returns them
CaptionEntries ==
    { [text |-> "a", start |-> 0, duration |-> 2],
      [text |-> "b", start |-> 2, duration |-> 3] }

\* segments of a Whisper response
WhisperSegments ==
    { [text |-> "x", start |-> 0, end |-> 1] }

SeqsUpTo(S, n) == UNION { [1..k -> S] : k \in 0..n }

\* percentages parsed from the downloader's [download] lines
Percents == {50}

\* what the translation provider answers for a subtitle line
ProviderTranslation(text) == IF text = "a" THEN "fa_a" ELSE "fa_b"

Sentinel == "Translation failed: provider error"

lang_code(language) == IF language = "Persian" THEN "fa" ELSE "en"

AudioPath(video_id) == <<"audio", video_id>>

SubtitlePath(video_id, language) == <<"subtitle", video_id, lang_code(language)>>

\* list.index(e): position (0-based) of the first element equal to e
index(entries, e) ==
    (CHOOSE k \in 1..Len(entries) :
        /\ entries[k] = e
        /\ \A j \in 1..(k - 1) : entries[j] # e) - 1

Min(a, b) == IF a < b THEN a ELSE b
Max(a, b) == IF a > b THEN a ELSE b

RECURSIVE Filter(_, _, _, _)
\* the list comprehension over transcript_entries[from:to] (0-based slice)
Filter(entries, from, to, i) ==
    IF from >= to THEN <<>>
    ELSE (IF index(entries, entries[from + 1]) # i
          THEN <<entries[from + 1].text>> ELSE <<>>)
         \o Filter(entries, from + 1, to, i)

\* the texts joined into the context of entry i (0-based)
Context(entries, i) ==
    LET start_idx == Max(0, i - context_range)
        end_idx == Min(Len(entries), i + context_range + 1)
    IN  Filter(entries, start_idx, end_idx, i)

\* translate_text: the provider's answer, or the sentinel when anything fails
translate_text(text, target_lang, context, outcome) ==
    IF target_lang = "fa" /\ outcome = "ok"
    THEN ProviderTranslation(text)
    ELSE Sentinel

\* the entry appended to translated_entries
TranslatedEntry(entry, translated_text) ==
    [text |-> translated_text,
     start |-> entry.start,
     duration |-> entry.duration,
     end |-> entry.start + entry.duration]

(***************************************************************************)
(* create_srt_content and its nested format_time.  A time is a Python      *)
(* float (IEEE-754 binary64).  The model names a float by the decimal it   *)
(* was parsed from, counted in units of 10^-4 s (3661.234 is 36612340),    *)
(* and computes on that integer what the float arithmetic of format_time   *)
(* yields for the nearest double.  //, % and int() are exact on doubles    *)
(* and integers below 2^53 are doubles, so the whole seconds of the double *)
(* are the whole seconds of the decimal; only (seconds % 1) * 1000 sees    *)
(* the difference between the double and the decimal.                      *)
(***************************************************************************)
TicksPerSecond == 10000

Mantissa == 52

DigitChars == <<"0", "1", "2", "3", "4", "5", "6", "7", "8", "9">>

RECURSIVE Dec(_)
\* str(n) for n >= 0
Dec(n) ==
    IF n < 10 THEN <<DigitChars[n + 1]>>
    ELSE Dec(n \div 10) \o <<DigitChars[(n % 10) + 1]>>

RECURSIVE Pad(_, _)
\* f"{n:0wd}": zero-filled on the left to at least w characters
Pad(s, w) == IF Len(s) >= w THEN s ELSE Pad(<<"0">> \o s, w)

RECURSIVE Pow2(_)
Pow2(n) == IF n = 0 THEN 1 ELSE 2 * Pow2(n - 1)

RECURSIVE Pow2Mod(_, _)
\* 2^n modulo m
Pow2Mod(n, m) == IF n = 0 THEN 1 % m ELSE (2 * Pow2Mod(n - 1, m)) % m

RECURSIVE Log2(_)
\* the e with 2^e <= n < 2^(e+1), n >= 1
Log2(n) == IF n < 2 THEN 0 ELSE 1 + Log2(n \div 2)

RECURSIVE Shifts(_)
\* the least n with T * 2^n >= TicksPerSecond, 0 < T
Shifts(T) == IF T >= TicksPerSecond THEN 0 ELSE 1 + Shifts(2 * T)

\* binary exponent of the double of T ticks: 2^e <= T / TicksPerSecond < 2^(e+1)
Exponent(T) ==
    IF T >= TicksPerSecond THEN Log2(T \div TicksPerSecond) ELSE 0 - Shifts(T)

\* float("<decimal>") rounds T / TicksPerSecond to the nearest multiple of
\* 2^-k, k = Mantissa - Exponent(T), ties to the even multiple.  The result
\* is how far the double lies BELOW the decimal, in units of
\* 2^-k / TicksPerSecond; 0 when the double is the decimal or above it.
Shortfall(T) ==
    LET k == Mantissa - Exponent(T)
        m2 == 2 * TicksPerSecond
        r2 == ((T % m2) * Pow2Mod(k, m2)) % m2
        r == r2 % TicksPerSecond
        odd == r2 >= TicksPerSecond
    IN  IF T = 0 \/ r = 0 THEN 0
        ELSE IF 2 * r < TicksPerSecond \/ (2 * r = TicksPerSecond /\ ~odd)
        THEN r
        ELSE 0

\* int((seconds % 1) * 1000) on the double of T ticks.  When the decimal is
\* a whole number m of milliseconds and the double lies below it, the
\* product lies below m and int() yields m - 1, unless the rounding of the
\* product itself lands on m (the product is within half a unit in the
\* last place of m).
milliseconds(T) ==
    LET q == T % TicksPerSecond
        scale == TicksPerSecond \div 1000
        m == q \div scale
        rho == Shortfall(T)
        ep == IF Pow2(Log2(m)) = m THEN Log2(m) - 1 ELSE Log2(m)
        j == ep - Exponent(T) - 1
        lands == IF j >= 0 THEN rho <= scale * Pow2(j)
                 ELSE rho <= scale \div Pow2(0 - j)
    IN  IF q % scale # 0 \/ m = 0 \/ rho = 0 \/ lands THEN m ELSE m - 1

format_time(T) ==
    LET whole == T \div TicksPerSecond
        hours == whole \div 3600
        minutes == (whole % 3600) \div 60
        seconds == whole % 60
    IN  Pad(Dec(hours), 2) \o <<":">> \o Pad(Dec(minutes), 2) \o <<":">>
        \o Pad(Dec(seconds), 2) \o <<",">> \o Pad(Dec(milliseconds(T)), 3)

\* start + duration on floats; exact (no rounding) when both are multiples
\* of 1/16 s, which every entry of SrtEntries without an 'end' is
float_add(a, b) == a + b

\* entry.get(key, default)
get(entry, key, default) == IF key \in entry.keys THEN entry[key] ELSE default

\* subtitle and Whisper entries handed to create_srt_content: keys names the
\* keys the dictionary has besides 'text'; times are in ticks
SrtEntries ==
    { [text |-> "a", start |-> 0, duration |-> 0, end |-> 36612340,
       keys |-> {"start", "end"}],
      [text |-> "b", start |-> 599995, duration |-> 0, end |-> 900005000,
       keys |-> {"start", "end"}],
      [text |-> "c", start |-> 25000, duration |-> 15000, end |-> 0,
       keys |-> {"start", "duration"}],
      [text |-> "d", start |-> 10000, duration |-> 0, end |-> 0,
       keys |-> {"start"}],
      [text |-> "e", start |-> 0, duration |-> 0, end |-> 0,
       keys |-> {}],
      [text |-> "a", start |-> 20000, duration |-> 50000, end |-> 30000,
       keys |-> {"start", "duration", "end"}],
      [text |-> "b", start |-> 43500, duration |-> 0, end |-> 10010,
       keys |-> {"start", "end"}],
      [text |-> "c", start |-> 36000000, duration |-> 0, end |-> 36599990,
       keys |-> {"start", "end"}] }

Arrow == <<" ", "-", "-", ">", " ">>

\* the f-string of one entry, i counted from first
srt_entry(i, entry) ==
    LET start == get(entry, "start", 0)
        duration == get(entry, "duration", 3 * TicksPerSecond)
        end == get(entry, "end", float_add(start, duration))
    IN  Dec(i) \o <<"\n">> \o format_time(start) \o Arrow \o format_time(end)
        \o <<"\n", entry.text, "\n">>

RECURSIVE join(_, _)
\* sep.join(list)
join(sep, list) ==
    IF list = <<>> THEN <<>>
    ELSE IF Len(list) = 1 THEN list[1]
    ELSE list[1] \o sep \o join(sep, Tail(list))

create_srt_content_from_zero(transcript_entries) ==
    join(<<"\n">>, [i \in 1..Len(transcript_entries) |->
                        srt_entry(i - 1, transcript_entries[i])])

create_srt_content(transcript_entries) ==
    join(<<"\n">>, [i \in 1..Len(transcript_entries) |->
                        srt_entry(i, transcript_entries[i])])

(***************************************************************************)
(* State.                                                                  *)
(***************************************************************************)
VARIABLES
    app,                \* which of the two programs is running
    url_input,          \* window._url_input
    language_combo,     \* window._language_combo
    subtitle_checkbox,  \* window._subtitle_checkbox
    status_label,       \* window._status_label: text and colour
    progress_bar,       \* window._progress_bar: visible, value
    transcribe_btn,     \* window._transcribe_btn is enabled
    timers,             \* pending QTimer.singleShot closures, in order
    stack,              \* active process_transcription calls, innermost last
    audio_files,        \* audio_<id>.mp3 files in Documents
    subtitle_files,     \* subtitle_<id>_<lang>.srt files in Documents
    requests,           \* requests that have reached their end
    upload_btn,         \* Voice_to_text: upload_btn is enabled
    v_status_label,     \* Voice_to_text: status_label
    v_progress_bar,     \* Voice_to_text: progress_bar is visible
    v_timers,           \* Voice_to_text: pending singleShot closures
    v_dialog,           \* Voice_to_text: the file dialog is open
    transcript_entries, \* create_srt_content: its argument
    srt_content         \* create_srt_content: its return value, None before

yt_vars == <<url_input, language_combo, subtitle_checkbox, status_label,
             progress_bar, transcribe_btn, timers, stack, audio_files,
             subtitle_files>>

voice_vars == <<upload_btn, v_status_label, v_progress_bar, v_timers, v_dialog>>

srt_vars == <<transcript_entries, srt_content>>

vars == <<app, requests, yt_vars, voice_vars, srt_vars>>

Status(text, color) == [text |-> text, color |-> color]

Init ==
    /\ app \in {"youtube", "voice"}
    /\ url_input = <<>>
    /\ language_combo = "English"
    /\ subtitle_checkbox = TRUE
    /\ status_label = Status(<<"">>, "black")
    /\ progress_bar = [visible |-> FALSE, value |-> 0]
    /\ transcribe_btn = TRUE
    /\ timers = <<>>
    /\ stack = <<>>
    /\ audio_files = {}
    /\ subtitle_files = {}
    /\ requests = 0
    /\ upload_btn = TRUE
    /\ v_status_label = Status(<<"">>, "black")
    /\ v_progress_bar = FALSE
    /\ v_timers = <<>>
    /\ v_dialog = FALSE
    /\ transcript_entries = <<>>
    /\ srt_content = None

(***************************************************************************)
(* The YouTube window.  Event dispatch runs when no handler is active or   *)
(* when the innermost process_transcription call is inside                 *)
(* QApplication.processEvents() (called by update_status/update_progress). *)
(***************************************************************************)
Top == stack[Len(stack)]

SetTop(f) == stack' = [stack EXCEPT ![Len(stack)] = f]

\* positions of process_transcription that are inside processEvents()
EventPcs == {"checking", "translating", "translate_i", "no_transcript",
             "downloading", "whisper", "saved", "completed", "error"}

Dispatching ==
    /\ app = "youtube"
    /\ IF stack = <<>> THEN TRUE ELSE Top.pc \in EventPcs

\* the user edits the URL field; the new text is one of S
EditUrlFrom(S) ==
    /\ Dispatching
    /\ \E u \in S : u # url_input /\ url_input' = u
    /\ UNCHANGED <<srt_vars, app, requests, language_combo, subtitle_checkbox, status_label,
                   progress_bar, transcribe_btn, timers, stack, audio_files,
                   subtitle_files, voice_vars>>

EditUrl == EditUrlFrom(UrlInputs)

TypeUrl == EditUrlFrom(AllUrls)

\* the user picks a language
SelectLanguage ==
    /\ Dispatching
    /\ \E l \in Languages : l # language_combo /\ language_combo' = l
    /\ UNCHANGED <<srt_vars, app, requests, url_input, subtitle_checkbox, status_label,
                   progress_bar, transcribe_btn, timers, stack, audio_files,
                   subtitle_files, voice_vars>>

\* the user toggles "Generate Subtitle File (.srt)"
ToggleSubtitle ==
    /\ Dispatching
    /\ subtitle_checkbox' = ~subtitle_checkbox
    /\ UNCHANGED <<srt_vars, app, requests, url_input, language_combo, status_label,
                   progress_bar, transcribe_btn, timers, stack, audio_files,
                   subtitle_files, voice_vars>>

\* the closure handed to QTimer.singleShot, with the locals of the call
Closure(url, video_id, language) ==
    [url |-> url, video_id |-> video_id, language |-> language,
     emit |-> subtitle_checkbox]

\* start_transcription without setEnabled(False)
start_transcription_keeps_button ==
    /\ Dispatching
    /\ transcribe_btn
    /\ LET url == strip(url_input)
           video_id == get_video_id(url)
       IN  IF url = <<>>
           THEN /\ status_label' = Status(<<"Please enter a YouTube URL">>, "red")
                /\ UNCHANGED <<transcribe_btn, progress_bar, timers, requests>>
           ELSE IF video_id = None
           THEN /\ status_label' = Status(<<"Invalid YouTube URL">>, "red")
                /\ UNCHANGED <<transcribe_btn, progress_bar, timers, requests>>
           ELSE /\ requests < MaxRequests
                /\ UNCHANGED requests
                /\ UNCHANGED transcribe_btn
                /\ progress_bar' = [visible |-> TRUE, value |-> 0]
                /\ timers' = Append(timers, Closure(url, video_id, language_combo))
                /\ UNCHANGED status_label
    /\ UNCHANGED <<srt_vars, app, url_input, language_combo, subtitle_checkbox, stack,
                   audio_files, subtitle_files, voice_vars>>

\* a click on the Transcribe button (a disabled button receives no clicks)
start_transcription ==
    /\ Dispatching
    /\ transcribe_btn
    /\ LET url == strip(url_input)
           video_id == get_video_id(url)
       IN  IF url = <<>>
           THEN /\ status_label' = Status(<<"Please enter a YouTube URL">>, "red")
                /\ UNCHANGED <<transcribe_btn, progress_bar, timers, requests>>
           ELSE IF video_id = None
           THEN /\ status_label' = Status(<<"Invalid YouTube URL">>, "red")
                /\ UNCHANGED <<transcribe_btn, progress_bar, timers, requests>>
           ELSE /\ requests < MaxRequests
                /\ UNCHANGED requests
                /\ transcribe_btn' = FALSE
                /\ progress_bar' = [visible |-> TRUE, value |-> 0]
                /\ timers' = Append(timers, Closure(url, video_id, language_combo))
                /\ UNCHANGED status_label
    /\ UNCHANGED <<srt_vars, app, url_input, language_combo, subtitle_checkbox, stack,
                   audio_files, subtitle_files, voice_vars>>

(***************************************************************************)
(* process_transcription(video_id, target_language).  A frame holds the    *)
(* locals of one call and its position; the history fields (fetched,       *)
(* downloads, ...) count what the call has done so far.                    *)
(***************************************************************************)
Frame(c) ==
    [pc |-> "checking",
     url |-> c.url,
     video_id |-> c.video_id,
     target_language |-> c.language,
     emit |-> c.emit,
     audio_file |-> None,
     transcript_entries |-> <<>>,
     translated_entries |-> <<>>,
     i |-> 0,
     context |-> <<>>,
     attempt |-> 0,
     subtitle_path |-> None,
     error |-> "",
     fetched |-> "pending",
     downloads |-> 0,
     removed |-> FALSE,
     whisper_calls |-> 0,
     api_calls |-> 0,
     sleeps |-> 0,
     translate_calls |-> 0]

NoTranscriptStatus ==
    Status(<<"No transcript available. Downloading audio...">>, "blue")

\* the handler drops the message of the exception
ErrorStatus_bare(e) == Status(<<"Error">>, "red")

ErrorStatus(e) == Status(<<"Error", e>>, "red")

\* the due timer runs the closure: process_transcription starts and reaches
\* update_status("Checking for YouTube transcript...")
process_transcription_begin ==
    /\ Dispatching
    /\ timers # <<>>
    /\ Len(stack) < MaxDepth
    /\ stack' = Append(stack, Frame(Head(timers)))
    /\ timers' = Tail(timers)
    /\ status_label' = Status(<<"Checking for YouTube transcript...">>, "blue")
    /\ UNCHANGED <<srt_vars, app, requests, url_input, language_combo, subtitle_checkbox,
                   progress_bar, transcribe_btn, audio_files, subtitle_files,
                   voice_vars>>

\* a handler that gives up instead of falling back
EnterFallback_abandons(f) ==
    [f EXCEPT !.pc = "error",
              !.transcript_entries = <<>>, !.translated_entries = <<>>,
              !.i = 0, !.context = <<>>]

\* the caption locals are not read again once the inner handler has taken
\* over, so a frame entering the fallback carries none of them
EnterFallback(f) ==
    [f EXCEPT !.pc = "no_transcript",
              !.transcript_entries = <<>>, !.translated_entries = <<>>,
              !.i = 0, !.context = <<>>]

\* "if window._subtitle_checkbox.isChecked(): save_subtitle_file(...)" and the
\* status that follows; w is the outcome of writing the file.  An exception
\* goes to the handler that encloses the call: the inner one (the fallback)
\* when the call is on the caption path, the outer one otherwise.
save_subtitle_file(f, saved_msg, done_msg, w, on_caption_path) ==
    LET path == SubtitlePath(f.video_id, f.target_language)
    IN  IF subtitle_checkbox
        THEN IF w = "ok"
             THEN /\ subtitle_files' = subtitle_files \cup {path}
                  /\ SetTop([f EXCEPT !.pc = "saved", !.subtitle_path = path])
                  /\ status_label' = Status(<<saved_msg, path>>, "green")
             ELSE /\ UNCHANGED subtitle_files
                  /\ IF on_caption_path
                     THEN /\ SetTop([EnterFallback(f) EXCEPT !.error = "write failed"])
                          /\ status_label' = NoTranscriptStatus
                     ELSE /\ SetTop([f EXCEPT !.pc = "error", !.error = "write failed"])
                          /\ status_label' = ErrorStatus(<<"write failed">>)
        ELSE /\ w = "ok"
             /\ UNCHANGED subtitle_files
             /\ SetTop([f EXCEPT !.pc = "completed"])
             /\ status_label' = Status(<<done_msg>>, "green")

\* lines 397-410 for entry i: context, then update_status with the percentage
TranslationStep(f) ==
    /\ SetTop([f EXCEPT !.pc = "translate_i",
                        !.context = Context(f.transcript_entries, f.i)])
    /\ status_label' =
           Status(<<"Translating subtitles...",
                    ((f.i + 1) * 100) \div Len(f.transcript_entries)>>, "blue")
    /\ UNCHANGED subtitle_files

\* the translation loop at entry i, or the code after the loop
TranslationLoop(f, w) ==
    IF f.i < Len(f.transcript_entries)
    THEN w = "ok" /\ TranslationStep(f)
    ELSE save_subtitle_file(f, "Transcript and subtitle file saved",
                            "Translation completed!", w, TRUE)

\* list_transcripts / find_transcript / fetch and what follows up to the next
\* processEvents()
fetch_transcript ==
    /\ app = "youtube" /\ stack # <<>> /\ Top.pc = "checking"
    /\ \/ \* the caption fetch raises
          /\ SetTop([EnterFallback(Top) EXCEPT !.fetched = "failed"])
          /\ status_label' = NoTranscriptStatus
          /\ UNCHANGED subtitle_files
       \/ \E entries \in SeqsUpTo(CaptionEntries, MaxSegs) :
            LET f == [Top EXCEPT !.transcript_entries = entries, !.fetched = "ok"]
            IN  IF f.target_language = "Persian"
                THEN /\ SetTop([f EXCEPT !.pc = "translating"])
                     /\ status_label' = Status(<<"Translating to Persian...">>, "blue")
                     /\ UNCHANGED subtitle_files
                ELSE \E w \in {"ok", "error"} :
                        save_subtitle_file(f, "Transcript and subtitle file saved",
                                           "Transcript retrieved successfully!", w, TRUE)
    /\ UNCHANGED <<srt_vars, app, requests, url_input, language_combo, subtitle_checkbox,
                   progress_bar, transcribe_btn, timers, audio_files, voice_vars>>

\* the for loop is entered
translate_begin ==
    /\ app = "youtube" /\ stack # <<>> /\ Top.pc = "translating"
    /\ \E w \in {"ok", "error"} : TranslationLoop(Top, w)
    /\ UNCHANGED <<srt_vars, app, requests, url_input, language_combo, subtitle_checkbox,
                   progress_bar, transcribe_btn, timers, audio_files, voice_vars>>

\* a loop that skips the entries whose translation failed
translate_entry_drops ==
    /\ app = "youtube" /\ stack # <<>> /\ Top.pc = "translate_i"
    /\ \E outcome \in {"ok", "error"}, w \in {"ok", "error"} :
         LET entry == Top.transcript_entries[Top.i + 1]
             translated_text == translate_text(entry.text, "fa", Top.context, outcome)
             f == [Top EXCEPT
                     !.translated_entries =
                         IF outcome = "ok"
                         THEN Append(@, TranslatedEntry(entry, translated_text))
                         ELSE @,
                     !.translate_calls = @ + 1,
                     !.i = @ + 1]
         IN  TranslationLoop(f, w)
    /\ UNCHANGED <<srt_vars, app, requests, url_input, language_combo, subtitle_checkbox,
                   progress_bar, transcribe_btn, timers, audio_files, voice_vars>>

\* translate_text for entry i returns (outcome of the provider call), the
\* entry is appended and the loop goes on
translate_entry ==
    /\ app = "youtube" /\ stack # <<>> /\ Top.pc = "translate_i"
    /\ \E outcome \in {"ok", "error"}, w \in {"ok", "error"} :
         LET entry == Top.transcript_entries[Top.i + 1]
             translated_text == translate_text(entry.text, "fa", Top.context, outcome)
             f == [Top EXCEPT
                     !.translated_entries =
                         Append(@, TranslatedEntry(entry, translated_text)),
                     !.translate_calls = @ + 1,
                     !.i = @ + 1]
         IN  TranslationLoop(f, w)
    /\ UNCHANGED <<srt_vars, app, requests, url_input, language_combo, subtitle_checkbox,
                   progress_bar, transcribe_btn, timers, audio_files, voice_vars>>

\* download_audio: one [download] line with a percentage was read and
\* progress_callback (update_progress) called
download_audio_progress ==
    /\ app = "youtube" /\ stack # <<>> /\ Top.pc \in {"no_transcript", "downloading"}
    /\ \E percent \in Percents :
         progress_bar' = [visible |-> TRUE, value |-> percent]
    /\ SetTop([Top EXCEPT !.pc = "downloading",
                          !.downloads = IF Top.pc = "no_transcript" THEN @ + 1 ELSE @])
    /\ UNCHANGED <<srt_vars, app, requests, url_input, language_combo, subtitle_checkbox,
                   status_label, transcribe_btn, timers, audio_files,
                   subtitle_files, voice_vars>>

\* what download_audio returns, and the state of output_path on disk:
\*   "ok"       return code 0, the file is there
\*   "failed"   non-zero return code, nothing left at output_path
\*   "partial"  non-zero return code after the tool wrote output_path
\*   "raised"   Popen or the read loop raised
DownloadOutcomes == {"ok", "failed", "partial", "raised"}

download_audio(video_id, outcome) ==
    IF outcome = "ok" THEN <<TRUE, AudioPath(video_id)>>
    ELSE IF outcome = "raised" THEN <<FALSE, <<"str(e)">>>>
    ELSE <<FALSE, <<"stderr">>>>

\* download_audio returns; on success the code goes on to
\* update_status("Transcribing with Whisper..."), otherwise it raises and the
\* outer handler shows the error
download_audio_return ==
    /\ app = "youtube" /\ stack # <<>> /\ Top.pc \in {"no_transcript", "downloading"}
    /\ \E outcome \in DownloadOutcomes :
         LET r == download_audio(Top.video_id, outcome)
             success == r[1]
             result == r[2]
             f == [Top EXCEPT
                     !.downloads = IF Top.pc = "no_transcript" THEN @ + 1 ELSE @]
         IN  /\ audio_files' =
                    IF outcome \in {"ok", "partial"}
                    THEN audio_files \cup {AudioPath(Top.video_id)}
                    ELSE audio_files
             /\ IF success
                THEN /\ SetTop([f EXCEPT !.pc = "whisper", !.audio_file = result])
                     /\ status_label' = Status(<<"Transcribing with Whisper...">>, "blue")
                ELSE /\ SetTop([f EXCEPT !.pc = "error",
                                         !.error = "Failed to download audio"])
                     /\ status_label' =
                            ErrorStatus(<<"Failed to download audio">> \o result)
    /\ progress_bar' = [progress_bar EXCEPT !.visible = TRUE]
    /\ UNCHANGED <<srt_vars, app, requests, url_input, language_combo, subtitle_checkbox,
                   transcribe_btn, timers, subtitle_files, voice_vars>>

\* an off-by-one in the retry limit
LastAttempt_early(attempt) == attempt = MaxAttempts - 2

\* "if attempt == 2: raise"
LastAttempt(attempt) == attempt = MaxAttempts - 1

\* whisper_transcribe: the key import on entry, then one pass of
\* "for attempt in range(3)" (open the file, call the provider).  outcome is
\*   "no_key"     the import of the API key fails (on entry only)
\*   "ok"         the provider answers with segments
\*   "api_error"  the attempt raises
whisper_transcribe ==
    /\ app = "youtube" /\ stack # <<>> /\ Top.pc \in {"whisper", "whisper_retry"}
    /\ LET f == [Top EXCEPT
                   !.whisper_calls = IF Top.pc = "whisper" THEN @ + 1 ELSE @]
           g == [f EXCEPT !.api_calls = @ + 1]
       IN  \/ /\ Top.pc = "whisper"
              /\ SetTop([f EXCEPT !.pc = "error", !.error = "no_key"])
              /\ status_label' = ErrorStatus(<<"OpenAI API key not found">>)
              /\ UNCHANGED subtitle_files
           \/ \E segments \in SeqsUpTo(WhisperSegments, MaxSegs), w \in {"ok", "error"} :
                save_subtitle_file([g EXCEPT !.transcript_entries = segments],
                                   "Transcription and subtitle file saved",
                                   "Transcription completed!", w, FALSE)
           \/ /\ IF LastAttempt(g.attempt)
                 THEN /\ SetTop([g EXCEPT !.pc = "error", !.error = "api_error"])
                      /\ status_label' = ErrorStatus(<<"api_error">>)
                 ELSE /\ SetTop([g EXCEPT !.pc = "sleep"])
                      /\ UNCHANGED status_label
              /\ UNCHANGED subtitle_files
    /\ UNCHANGED <<srt_vars, app, requests, url_input, language_combo, subtitle_checkbox,
                   progress_bar, transcribe_btn, timers, audio_files, voice_vars>>

\* time.sleep(1) returns and the loop takes the next attempt
whisper_sleep ==
    /\ app = "youtube" /\ stack # <<>> /\ Top.pc = "sleep"
    /\ SetTop([Top EXCEPT !.pc = "whisper_retry", !.sleeps = @ + 1, !.attempt = @ + 1])
    /\ UNCHANGED <<srt_vars, app, requests, url_input, language_combo, subtitle_checkbox,
                   status_label, progress_bar, transcribe_btn, timers, audio_files,
                   subtitle_files, voice_vars>>

\* os.remove outside any try: its exception leaves the finally block
finally_unguarded ==
    /\ app = "youtube" /\ stack # <<>> /\ Top.pc \in {"saved", "completed", "error"}
    /\ IF Top.audio_file # None /\ Top.audio_file \in audio_files
       THEN \E rm \in {"ok", "error"} :
              /\ audio_files' = IF rm = "ok" THEN audio_files \ {Top.audio_file}
                                ELSE audio_files
              /\ SetTop([Top EXCEPT !.pc = "finished", !.removed = (rm = "ok")])
              /\ progress_bar' = [progress_bar EXCEPT
                                      !.visible = IF rm = "ok" THEN FALSE ELSE @]
              /\ transcribe_btn' = (rm = "ok")
       ELSE /\ UNCHANGED audio_files
            /\ SetTop([Top EXCEPT !.pc = "finished"])
            /\ progress_bar' = [progress_bar EXCEPT !.visible = FALSE]
            /\ transcribe_btn' = TRUE
    /\ requests' = requests + 1
    /\ UNCHANGED <<srt_vars, app, url_input, language_combo, subtitle_checkbox,
                   status_label, timers, subtitle_files, voice_vars>>

\* the finally block; rm is the outcome of os.remove
finally ==
    /\ app = "youtube" /\ stack # <<>> /\ Top.pc \in {"saved", "completed", "error"}
    /\ IF Top.audio_file # None /\ Top.audio_file \in audio_files
       THEN \E rm \in {"ok", "error"} :
              /\ audio_files' = IF rm = "ok" THEN audio_files \ {Top.audio_file}
                                ELSE audio_files
              /\ SetTop([Top EXCEPT !.pc = "finished", !.removed = (rm = "ok")])
       ELSE /\ UNCHANGED audio_files
            /\ SetTop([Top EXCEPT !.pc = "finished"])
    /\ progress_bar' = [progress_bar EXCEPT !.visible = FALSE]
    /\ transcribe_btn' = TRUE
    /\ requests' = requests + 1
    /\ UNCHANGED <<srt_vars, app, url_input, language_combo, subtitle_checkbox,
                   status_label, timers, subtitle_files, voice_vars>>

\* process_transcription returns to whoever dispatched the timer
process_transcription_return ==
    /\ app = "youtube" /\ stack # <<>> /\ Top.pc = "finished"
    /\ stack' = SubSeq(stack, 1, Len(stack) - 1)
    /\ UNCHANGED <<srt_vars, app, requests, url_input, language_combo, subtitle_checkbox,
                   status_label, progress_bar, transcribe_btn, timers, audio_files,
                   subtitle_files, voice_vars>>

process_transcription ==
    \/ process_transcription_begin
    \/ fetch_transcript
    \/ translate_begin
    \/ translate_entry
    \/ download_audio_progress
    \/ download_audio_return
    \/ whisper_transcribe
    \/ whisper_sleep
    \/ finally
    \/ process_transcription_return

(***************************************************************************)
(* Voice_to_text.py                                                        *)
(***************************************************************************)
FilePaths == {"a.mp3", "b.wav"}

\* a click on "Upload Audio File": the modal file dialog opens
upload_audio_open ==
    /\ app = "voice"
    /\ upload_btn /\ ~v_dialog
    /\ v_dialog' = TRUE
    /\ UNCHANGED <<srt_vars, app, requests, yt_vars, upload_btn, v_status_label,
                   v_progress_bar, v_timers>>

\* the dialog closes: cancelled, or accepted with a selected file
upload_audio ==
    /\ app = "voice"
    /\ v_dialog
    /\ v_dialog' = FALSE
    /\ \/ UNCHANGED <<upload_btn, v_status_label, v_progress_bar, v_timers>>
       \/ \E file_path \in FilePaths :
            /\ upload_btn' = FALSE
            /\ v_status_label' =
                   Status(<<"Transcription in progress... Please wait.">>, "blue")
            /\ v_progress_bar' = TRUE
            /\ v_timers' = Append(v_timers, file_path)
    /\ UNCHANGED <<srt_vars, app, requests, yt_vars>>

\* the due timer runs transcribe_audio(file_path); it makes no call that
\* dispatches events, so it runs to its end in one step
transcribe_audio ==
    /\ app = "voice"
    /\ v_timers # <<>>
    /\ v_timers' = Tail(v_timers)
    /\ \E outcome \in {"ok", "error"} :
         v_status_label' =
             IF outcome = "ok" THEN Status(<<"Transcription completed!">>, "green")
             ELSE ErrorStatus(<<"str(e)">>)
    /\ v_progress_bar' = FALSE
    /\ upload_btn' = TRUE
    /\ UNCHANGED <<srt_vars, app, requests, yt_vars, v_dialog>>

Next ==
    \/ EditUrl
    \/ SelectLanguage
    \/ ToggleSubtitle
    \/ start_transcription
    \/ process_transcription
    \/ upload_audio_open
    \/ upload_audio
    \/ transcribe_audio

Spec == Init /\ [][Next]_vars

\* the steps a request takes on its own: the due timer fires, and every call
\* process_transcription waits on (caption provider, translator, downloader,
\* Whisper, time.sleep, os.remove) returns or raises
ProcessStep ==
    \/ process_transcription_begin
    \/ fetch_transcript
    \/ translate_begin
    \/ translate_entry
    \/ download_audio_return
    \/ whisper_transcribe
    \/ whisper_sleep
    \/ finally
    \/ process_transcription_return

\* the event loop runs due timers and external calls come back; nothing is
\* assumed of the user or of how many progress lines the downloader prints
Fairness == WF_vars(ProcessStep) /\ WF_vars(transcribe_audio)

\* the window as the user has filled it in before a request: process_transcription
\* reads neither the URL field nor the language box, only the checkbox
InitLive ==
    /\ app \in {"youtube", "voice"}
    /\ url_input \in UrlInputs
    /\ language_combo \in Languages
    /\ subtitle_checkbox \in BOOLEAN
    /\ status_label = Status(<<"">>, "black")
    /\ progress_bar = [visible |-> FALSE, value |-> 0]
    /\ transcribe_btn = TRUE
    /\ timers = <<>>
    /\ stack = <<>>
    /\ audio_files = {}
    /\ subtitle_files = {}
    /\ requests = 0
    /\ upload_btn = TRUE
    /\ v_status_label = Status(<<"">>, "black")
    /\ v_progress_bar = FALSE
    /\ v_timers = <<>>
    /\ v_dialog = FALSE
    /\ transcript_entries = <<>>
    /\ srt_content = None

NextLive ==
    \/ ToggleSubtitle
    \/ start_transcription
    \/ process_transcription
    \/ upload_audio_open
    \/ upload_audio
    \/ transcribe_audio

SpecLive == InitLive /\ [][NextLive]_vars /\ Fairness

\* the URL field and the Transcribe button alone, over every URL of AllUrls
InitUrl == Init /\ app = "youtube"

NextUrl ==
    \/ TypeUrl
    \/ start_transcription

SpecUrl == InitUrl /\ [][NextUrl]_vars

\* create_srt_content alone, over every list of at most MaxSegs entries
InitSrt ==
    /\ app = "youtube"
    /\ url_input = <<>>
    /\ language_combo = "English"
    /\ subtitle_checkbox = TRUE
    /\ status_label = Status(<<"">>, "black")
    /\ progress_bar = [visible |-> FALSE, value |-> 0]
    /\ transcribe_btn = TRUE
    /\ timers = <<>>
    /\ stack = <<>>
    /\ audio_files = {}
    /\ subtitle_files = {}
    /\ requests = 0
    /\ upload_btn = TRUE
    /\ v_status_label = Status(<<"">>, "black")
    /\ v_progress_bar = FALSE
    /\ v_timers = <<>>
    /\ v_dialog = FALSE
    /\ transcript_entries \in SeqsUpTo(SrtEntries, MaxSegs)
    /\ srt_content = None

\* the call srt_content = create_srt_content(transcript_entries) of line 251
create_srt_content_call ==
    /\ srt_content = None
    /\ srt_content' = create_srt_content(transcript_entries)
    /\ UNCHANGED <<app, requests, yt_vars, voice_vars, transcript_entries>>

NextSrt == create_srt_content_call

SpecSrt == InitSrt /\ [][NextSrt]_vars

(***************************************************************************)
(* Properties.                                                             *)
(***************************************************************************)
Frames == {stack[k] : k \in 1..Len(stack)}

Closures == {timers[k] : k \in 1..Len(timers)}

\* positions on the caption path, on the audio path, and after both
CaptionPcs == {"checking", "translating", "translate_i"}
AudioPcs == {"no_transcript", "downloading", "whisper", "sleep", "whisper_retry"}
EndPcs == {"saved", "completed", "error", "finished"}

\* C1: a request that called download_audio leaves no audio_<video_id>.mp3 on
\* disk once it has finished, whatever its outcome.
C1_AudioRemovedAtEnd ==
    \A f \in Frames :
        (f.pc = "finished" /\ f.downloads >= 1)
            => AudioPath(f.video_id) \notin audio_files

\* C2: when the caption fetch fails, download_audio is called exactly once in
\* the request and whisper_transcribe at most once and only after a download
\* that succeeded; once the audio path has started the call is never again
\* at a caption-path position.
C2_FallbackOnce ==
    \A f \in Frames :
        /\ (f.fetched = "failed" /\ f.pc \in EndPcs)
               => (f.downloads = 1 /\ f.whisper_calls <= 1)
        /\ f.downloads <= 1
        /\ f.whisper_calls <= f.downloads
        /\ f.whisper_calls = 1 => f.audio_file = AudioPath(f.video_id)
        /\ f.downloads >= 1 => (f.pc \notin CaptionPcs /\ f.fetched # "pending")

C2_Witness ==
    \E f \in Frames :
        /\ f.fetched = "failed" /\ f.pc = "finished"
        /\ f.downloads = 1 /\ f.whisper_calls = 1

\* C3: a request whose caption fetch succeeded never starts the audio path:
\* it calls neither download_audio nor whisper_transcribe.
C3_NoFallbackAfterFetch ==
    \A f \in Frames :
        f.fetched = "ok" => (f.downloads = 0 /\ f.pc \notin AudioPcs)

\* C4: on the audio path with target language Persian, every transcribed
\* segment has gone through translate_text when the subtitle file is written.
C4_FallbackTranslates ==
    \A f \in Frames :
        (f.downloads >= 1 /\ f.target_language = "Persian" /\ f.pc = "saved")
            => f.translate_calls = Len(f.transcript_entries)

\* C5: at most one request is in flight per window (scheduled closures plus
\* calls that have not reached their end), and while one is in flight the
\* initiating button is disabled.
InFlight ==
    Len(timers) + Cardinality({k \in 1..Len(stack) : stack[k].pc # "finished"})

C5_SingleRequest ==
    /\ InFlight <= 1
    /\ InFlight = 1 => ~transcribe_btn
    /\ Len(stack) <= 1
    /\ Len(v_timers) <= 1
    /\ Len(v_timers) = 1 => ~upload_btn

\* a request is inside processEvents() (called by update_progress) with the
\* button disabled
C5_Witness ==
    /\ stack # <<>> /\ Top.pc = "downloading"
    /\ InFlight = 1 /\ ~transcribe_btn

\* C6: whisper_transcribe calls the provider at most three times; it returns
\* at the first success, sleeps once after each of the first two failures, and
\* after the third failure raises without a further sleep or attempt.
C6_WhisperRetry ==
    \A f \in Frames :
        /\ f.api_calls <= MaxAttempts
        /\ f.sleeps <= MaxAttempts - 1
        /\ f.pc = "sleep" => (f.api_calls = f.attempt + 1 /\ f.sleeps = f.attempt)
        /\ f.pc = "whisper_retry" => (f.api_calls = f.attempt /\ f.sleeps = f.attempt)
        /\ (f.whisper_calls = 1 /\ f.pc \in EndPcs) =>
              IF f.error = "api_error" THEN f.api_calls = MaxAttempts /\ f.sleeps = MaxAttempts - 1
              ELSE IF f.error = "no_key" THEN f.api_calls = 0 /\ f.sleeps = 0
              ELSE f.api_calls >= 1 /\ f.sleeps = f.api_calls - 1

\* the third attempt failed and the failure reached the caller
C6_Witness ==
    \E f \in Frames :
        /\ f.pc = "error" /\ f.error = "api_error"
        /\ f.api_calls = 3 /\ f.sleeps = 2

\* C7: whether the subtitle file is written is fixed by the checkbox as it
\* was when the request was accepted.
C7_RequestImmutable ==
    \A f \in Frames :
        f.pc \in {"saved", "completed"} => ((f.pc = "saved") <=> f.emit)

\* the texts at positions max(0,i-2)..min(N-1,i+2) except position i (0-based)
WindowTexts(entries, i) ==
    LET lo == Max(0, i - context_range)
        hi == Min(Len(entries) - 1, i + context_range)
        pos == [k \in 1..(hi - lo + 1) |-> lo + k - 1]
        keep == SelectSeq(pos, LAMBDA q : q # i)
    IN  [k \in 1..Len(keep) |-> entries[keep[k] + 1].text]

\* C8: the context passed to translate_text for entry i is made of the texts
\* of the neighbours within two positions, position i alone left out.
C8_ContextWindow ==
    \A f \in Frames :
        f.pc = "translate_i" => f.context = WindowTexts(f.transcript_entries, f.i)

SameTiming(translated, source) ==
    \A k \in 1..Len(translated) :
        /\ translated[k].start = source[k].start
        /\ translated[k].end = source[k].start + source[k].duration
        /\ translated[k].text \in {ProviderTranslation(source[k].text), Sentinel}

C9_State ==
    \A f \in Frames :
        /\ f.pc = "translate_i" =>
              /\ Len(f.translated_entries) = f.i
              /\ SameTiming(f.translated_entries, f.transcript_entries)
        /\ (f.fetched = "ok" /\ f.target_language = "Persian" /\ f.downloads = 0
              /\ f.pc \in EndPcs /\ f.error = "") =>
              /\ Len(f.translated_entries) = Len(f.transcript_entries)
              /\ f.translate_calls = Len(f.transcript_entries)
              /\ SameTiming(f.translated_entries, f.transcript_entries)

C9_Step ==
    (stack # <<>> /\ Len(stack') = Len(stack) /\ stack' # stack
        /\ Top.pc = "translate_i") =>
        LET f == Top
            g == stack'[Len(stack')]
        IN  /\ g.translate_calls = f.translate_calls + 1
            /\ g.pc \in {"translate_i", "saved", "completed", "no_transcript"}
            /\ g.pc = "translate_i" => g.i = f.i + 1
            /\ g.pc # "translate_i" => f.i + 1 = Len(f.transcript_entries)
            /\ g.pc # "no_transcript" =>
                  /\ Len(g.translated_entries) = f.i + 1
                  /\ SubSeq(g.translated_entries, 1, f.i) = f.translated_entries

\* C9: a failed translation puts the sentinel text in the entry's place and
\* the loop goes on to the last entry: the translated list has the length,
\* order and timing of the caption list, and no translation step ends the
\* request.
C9_TranslationDegrades == [](C9_State) /\ [][C9_Step]_vars

\* the first of two translations failed and the subtitle file was written
C9_Witness ==
    \E f \in Frames :
        /\ f.pc = "saved" /\ f.fetched = "ok" /\ f.downloads = 0
        /\ Len(f.translated_entries) = 2
        /\ f.translated_entries[1].text = Sentinel
        /\ f.translated_entries[2].text # Sentinel

\* no literal of the patterns is followed by IdLen identifier characters
NoPatternMatches(u) ==
    \A lit \in {L_v, L_slash, L_youtu_be, L_embed, L_shorts} :
        \A pos \in 1..Len(u) : ~(LitAt(u, pos, lit) /\ IdAt(u, pos + Len(lit)))

\* C10: for a URL of a supported shape get_video_id returns the identifier
\* that follows the shape, and for a string no pattern matches it returns
\* None.
C10_IdExtraction ==
    /\ \A c \in Closures :
         \A p \in UrlPrefixes, sh \in UrlShapes, id \in VideoIds, t \in UrlTails :
             c.url = MkUrl(p, sh, id, t) => c.video_id = id
    /\ NoPatternMatches(strip(url_input)) => get_video_id(strip(url_input)) = None

(***************************************************************************)
(* Reading an SRT text back: its lines, and its blocks (runs of non-empty  *)
(* lines separated by empty ones).                                         *)
(***************************************************************************)
RECURSIVE Split(_, _)
\* s.split(sep)
Split(s, sep) ==
    IF \A i \in 1..Len(s) : s[i] # sep THEN <<s>>
    ELSE LET i == CHOOSE i \in 1..Len(s) :
                      /\ s[i] = sep
                      /\ \A j \in 1..(i - 1) : s[j] # sep
         IN  <<SubSeq(s, 1, i - 1)>> \o Split(SubSeq(s, i + 1, Len(s)), sep)

RECURSIVE Runs(_, _)
Runs(lines, cur) ==
    IF lines = <<>> THEN (IF cur = <<>> THEN <<>> ELSE <<cur>>)
    ELSE IF Head(lines) = <<>>
    THEN (IF cur = <<>> THEN <<>> ELSE <<cur>>) \o Runs(Tail(lines), <<>>)
    ELSE Runs(Tail(lines), Append(cur, Head(lines)))

SrtBlocks == Runs(Split(srt_content, "\n"), <<>>)

\* the start and end an entry is to be shown with: 'start' or 0; 'end', or
\* start plus 'duration', or start plus 3 s
ShownStart(e) == IF "start" \in e.keys THEN e.start ELSE 0

ShownEnd(e) ==
    IF "end" \in e.keys THEN e.end
    ELSE IF "duration" \in e.keys THEN ShownStart(e) + e.duration
    ELSE ShownStart(e) + 3 * TicksPerSecond

\* C11: the SRT text made from N entries has exactly N blocks; block k is
\* numbered k, carries the text of entry k unchanged and the times of entry
\* k, whatever gaps or overlaps the times have; an entry without 'end' ends
\* at start + duration, with 3 s for a missing duration.
C11_SrtEntries ==
    srt_content # None =>
        /\ Len(SrtBlocks) = Len(transcript_entries)
        /\ \A k \in 1..Len(transcript_entries) :
              SrtBlocks[k] =
                  << Dec(k),
                     format_time(ShownStart(transcript_entries[k])) \o Arrow
                         \o format_time(ShownEnd(transcript_entries[k])),
                     <<transcript_entries[k].text>> >>

\* two entries rendered, the first without 'end' and 'duration', the second
\* starting before the first has ended
C11_Witness ==
    /\ srt_content # None
    /\ Len(transcript_entries) = 2
    /\ transcript_entries[1].keys = {"start"}
    /\ transcript_entries[2].keys = {"start", "duration"}
    /\ transcript_entries[2].start < ShownEnd(transcript_entries[1])
    /\ Len(SrtBlocks) = 2

\* HH:MM:SS,mmm of a decimal time by truncation: hours not wrapped, minutes
\* and seconds 0..59, milliseconds the first three decimals
Truncated(T) ==
    LET whole == T \div TicksPerSecond
    IN  Pad(Dec(whole \div 3600), 2) \o <<":">>
        \o Pad(Dec((whole % 3600) \div 60), 2) \o <<":">>
        \o Pad(Dec(whole % 60), 2) \o <<",">>
        \o Pad(Dec((T % TicksPerSecond) \div (TicksPerSecond \div 1000)), 3)

StampLen == Len(Truncated(0))

\* the two time stamps of block k of the SRT text
StartStamp(k) == SubSeq(SrtBlocks[k][2], 1, StampLen)
EndStamp(k) ==
    SubSeq(SrtBlocks[k][2], StampLen + Len(Arrow) + 1, 2 * StampLen + Len(Arrow))

\* C12: format_time renders a time as HH:MM:SS,mmm with the milliseconds
\* truncated, never rounded: 0 gives 00:00:00,000, 3661.234 gives
\* 01:01:01,234 and 59.9995 gives 00:00:59,999.
C12_FormatTime ==
    srt_content # None =>
        \A k \in 1..Len(transcript_entries) :
            LET start == ShownStart(transcript_entries[k])
                end == ShownEnd(transcript_entries[k])
            IN  /\ StartStamp(k) = Truncated(start)
                /\ EndStamp(k) = Truncated(end)
                /\ start = 0 =>
                      StartStamp(k) = <<"0", "0", ":", "0", "0", ":", "0", "0",
                                        ",", "0", "0", "0">>
                /\ start = 599995 =>
                      StartStamp(k) = <<"0", "0", ":", "0", "0", ":", "5", "9",
                                        ",", "9", "9", "9">>
                /\ end = 36612340 =>
                      EndStamp(k) = <<"0", "1", ":", "0", "1", ":", "0", "1",
                                      ",", "2", "3", "4">>

\* the diagnostic texts download_audio can hand back: the downloader's
\* stderr, or the text of an exception raised while running it
Diagnostics == { <<"stderr">>, <<"str(e)">> }

\* frames whose download_audio call reported failure
DownloadFailed == {f \in Frames : f.error = "Failed to download audio"}

\* C13: once download_audio has reported failure the request is over:
\* whisper_transcribe is never called, no audio path is kept, no subtitle is
\* saved, the request stands at its error end, and the status line is the
\* red error text carrying the downloader's diagnostic.
C13_DownloadFailureFatal ==
    \A f \in DownloadFailed :
        /\ f.pc \in {"error", "finished"}
        /\ f.whisper_calls = 0
        /\ f.api_calls = 0
        /\ f.audio_file = None
        /\ f.subtitle_path = None
        /\ status_label.color = "red"
        /\ \E d \in Diagnostics :
              status_label.text = <<"Error", <<"Failed to download audio">> \o d>>

\* a request has ended after the downloader failed with text on stderr
C13_Witness ==
    \E f \in DownloadFailed :
        /\ f.pc = "finished"
        /\ f.downloads = 1
        /\ status_label.text = <<"Error", <<"Failed to download audio", "stderr">>>>

\* a request of the YouTube window is accepted and not yet over (the button
\* is disabled from the accepting click to the finally block)
YtAccepted == app = "youtube" /\ ~transcribe_btn

\* process_transcription stands at its end, after the finally block
YtEnded == IF stack = <<>> THEN FALSE ELSE Top.pc = "finished"

YtRestored == transcribe_btn /\ ~progress_bar.visible

VoiceAccepted == app = "voice" /\ ~upload_btn

VoiceEnded == app = "voice" /\ v_timers = <<>>

VoiceRestored == upload_btn /\ ~v_progress_bar

\* C14: every accepted request of either program comes to its end, success
\* or error, provided the calls it waits on return or raise; whenever a
\* request is at its end the button is enabled again and the progress bar
\* is hidden, whichever way it got there.
C14_RequestEnds ==
    /\ [](YtEnded => YtRestored)
    /\ [](VoiceEnded => VoiceRestored)
    /\ YtAccepted ~> (YtEnded /\ YtRestored)
    /\ VoiceAccepted ~> (VoiceEnded /\ VoiceRestored)

\* a request that went through the fallback has ended in an error while its
\* audio file could not be removed, and the window is usable again
C14_Witness ==
    /\ YtEnded /\ YtRestored
    /\ Top.error # ""
    /\ Top.downloads = 1
    /\ Top.audio_file # None /\ ~Top.removed

\* 'v=' or '/' stands at pos and IdLen identifier characters follow it
GenericAt(u, pos) ==
    \/ LitAt(u, pos, L_v) /\ IdAt(u, pos + Len(L_v))
    \/ LitAt(u, pos, L_slash) /\ IdAt(u, pos + Len(L_slash))

\* the IdLen characters after the leftmost 'v=' or '/' that is followed by
\* IdLen identifier characters; None when there is no such place
LeftmostGeneric(u) ==
    IF \E pos \in 1..Len(u) : GenericAt(u, pos)
    THEN LET pos == CHOOSE q \in 1..Len(u) :
                        GenericAt(u, q) /\ \A r \in 1..(q - 1) : ~GenericAt(u, r)
             from == IF LitAt(u, pos, L_v) /\ IdAt(u, pos + Len(L_v))
                     THEN pos + Len(L_v) ELSE pos + Len(L_slash)
         IN  SubSeq(u, from, from + IdLen - 1)
    ELSE None

\* one of youtu.be/, embed/, shorts/ is followed by IdLen identifier characters
SpecificMatches(u) ==
    \E lit \in {L_youtu_be, L_embed, L_shorts} :
        \E pos \in 1..Len(u) : LitAt(u, pos, lit) /\ IdAt(u, pos + Len(lit))

\* C15: whatever youtu.be/, embed/ or shorts/ matches, the first pattern
\* (v= or / before 11 identifier characters) matches too, so get_video_id
\* always returns the first pattern's leftmost capture: the 11 characters
\* after the leftmost 'v=' or '/' that has 11 identifier characters behind
\* it, even when the identifier after youtu.be/, embed/ or shorts/ comes
\* later in the string.
C15_FirstPatternDecides ==
    /\ SpecificMatches(strip(url_input)) =>
           \E pos \in 1..Len(strip(url_input)) : GenericAt(strip(url_input), pos)
    /\ get_video_id(strip(url_input)) = LeftmostGeneric(strip(url_input))
    /\ \A c \in Closures : c.video_id = LeftmostGeneric(c.url)

\* an accepted embed URL whose host name already holds 11 identifier
\* characters after '//': the request carries those, not the identifier
\* after embed/
C15_Witness ==
    \E c \in Closures :
        /\ c.url = MkUrl(P_nocookie, S_embed, ID_B, T_none)
        /\ SpecificMatches(c.url)
        /\ c.video_id # ID_B
        /\ c.video_id = LeftmostGeneric(c.url)

====
